---------------------------- MODULE Spec2Model ----------------------------
(***************************************************************************)
(* Compressive-sensing reconstruction (src/reconstruction.py): the         *)
(* Reconstruction session, its three drivers (evaluate_fista,              *)
(* evaluate_naive_ista, evaluate_ista_complete) and the CUDA kernels they  *)
(* launch.                                                                 *)
(*                                                                         *)
(* Numbers.  The program computes in IEEE doubles.  A double is modelled   *)
(* as an exact rational <<n, d>> (d > 0, lowest terms): sums, differences, *)
(* products and quotients are exact.  math.sqrt is modelled by the square  *)
(* root rounded down to a multiple of 1/SqrtResolution, math.sin by its    *)
(* exact values at quarter periods (frequencies are multiples of           *)
(* BaseFrequency Hz, times are ticks of 1/TicksPerSecond s, so that        *)
(* frequency*time is always a multiple of a quarter turn).  The one place  *)
(* where the doubles' finite range is modelled is the product of the       *)
(* shrinkage step (line 282), which underflows to zero for tiny operands.  *)
(*                                                                         *)
(* Arrays are functions on 0 .. size-1, as in the source.  A parameter     *)
(* that would clash with a variable of the same name ends in "_".          *)
(***************************************************************************)
EXTENDS Integers, Sequences, FiniteSets, TLC

VARIABLES
    \* Reconstruction's fields
    time_coarse,            \* time_properties.time_coarse, in ticks
    time_step_coarse,       \* time_properties.time_step_coarse, in ticks
    step_size_sparse,
    step_size_manifold,
    frequency,              \* None, or the sampled frequencies (frequency units)
    frequency_amplitude,    \* None, or the sampled sine coefficients
    amplitude,              \* None, or the reconstructed signal
    \* the caller's arrays handed to read_frequencies_directly
    callerFrequency,
    callerAmplitude,
    \* the datasets of the archive handed to write_to_file
    archive,
    \* whether the module's globals hold reconstructNaive_initialisation_step
    \* and reconstructNaive_prediction_step: reconstruction.py does not define
    \* them, and "from test_signal import *" (line 8) may or may not
    naive_kernels_defined,
    \* locals of the method that is running
    pc,
    frequency_amplitude_prediction,
    fourier_transform,
    amplitude_previous,
    fast_step_size,
    fastStep_size_previous,
    permutation,
    \* one record per thread block of a running reconstruct_ista_complete
    blockState,
    \* history (not program state)
    tiny,                   \* the amplitudes are in units of 2^-540
    pre,                    \* the buffers when the last kernel was launched
    ingested,               \* the arguments of the call that stored the samples
    operatorBuilds,         \* operators computed since the samples were stored
    launch,                 \* which workers of the last launch touched what
    iteration,              \* loop iterations of the current run so far
    stepTrace,              \* the kernels launched in the current iteration
    raised,                 \* the exception the last call ended with
    hadRun                  \* a run has returned on this session

vars ==
    <<time_coarse, time_step_coarse, step_size_sparse, step_size_manifold,
      frequency, frequency_amplitude, amplitude, callerFrequency,
      callerAmplitude, naive_kernels_defined, pc, frequency_amplitude_prediction, fourier_transform,
      amplitude_previous, fast_step_size, fastStep_size_previous, permutation,
      blockState, tiny, pre, ingested, operatorBuilds, launch, iteration, stepTrace,
      raised, hadRun, archive>>

\* Python's None (a one-element tuple, so that it can be compared with an array)
None == <<"None">>
\* no exception has been raised
NoException == "None"

(***************************************************************************)
(* Bounds of the model.                                                    *)
(***************************************************************************)
MaxT == 2            \* largest number of time samples of a small grid
MaxF == 2            \* largest number of frequency samples
MaxIter == 2         \* loop iterations of a run that the model follows
MaxBuilds == 2       \* operator computations that the model counts
MaxNaiveIter == 6    \* loop iterations of a naive run that SpecNaive follows
SqrtResolution == 1  \* math.sqrt is rounded down to a multiple of 1/SqrtResolution

(***************************************************************************)
(* Program constants.                                                      *)
(***************************************************************************)
ThreadsPerBlock == 128
\* |a*b| of two doubles that are k1*2^-540 and k2*2^-540 is k1*k2*2^-1080;
\* the smallest subnormal is 2^-1074 = 64*2^-1080, so the product rounds (to
\* nearest, ties to even) to zero exactly when |k1*k2| <= 32.
UnderflowHalfUlp == 32
ConvergenceThresholdFista == 1       \* "> 1e0" of evaluate_fista
ConvergenceThresholdNaive == 1       \* "> 1" of evaluate_naive_ista

(***************************************************************************)
(* Exact rationals.                                                        *)
(***************************************************************************)
Abs(n) == IF n < 0 THEN -n ELSE n

RECURSIVE GCD(_, _)
GCD(a, b) == IF b = 0 THEN a ELSE GCD(b, a % b)

Rat(n, d) ==
    LET s == IF d < 0 THEN -1 ELSE 1
        g == GCD(Abs(n), Abs(d))
    IN  IF n = 0 THEN <<0, 1>> ELSE <<(s * n) \div g, Abs(d) \div g>>

Num(n) == <<n, 1>>
Zero == <<0, 1>>
One == <<1, 1>>
RAdd(a, b) ==
    LET g == GCD(a[2], b[2])
    IN  Rat(a[1] * (b[2] \div g) + b[1] * (a[2] \div g), (a[2] \div g) * b[2])
RNeg(a) == <<-a[1], a[2]>>
RSub(a, b) == RAdd(a, RNeg(b))
RMul(a, b) ==
    LET g == GCD(Abs(a[1]), b[2])
        h == GCD(Abs(b[1]), a[2])
    IN  Rat((a[1] \div g) * (b[1] \div h), (a[2] \div h) * (b[2] \div g))
RDiv(a, b) == RMul(a, IF b[1] < 0 THEN <<-b[2], -b[1]>> ELSE <<b[2], b[1]>>)
RLess(a, b) ==
    LET g == GCD(a[2], b[2])
    IN  a[1] * (b[2] \div g) < b[1] * (a[2] \div g)
RAbs(a) == <<Abs(a[1]), a[2]>>
RSign(a) == IF a[1] > 0 THEN 1 ELSE IF a[1] < 0 THEN -1 ELSE 0

\* the largest k with k*k <= n
ISqrt(n) == CHOOSE k \in 0 .. n : k * k <= n /\ (k + 1) * (k + 1) > n
\* math.sqrt, rounded down to a multiple of 1/SqrtResolution
RSqrt(a) ==
    Rat(ISqrt((a[1] * SqrtResolution * SqrtResolution) \div a[2]), SqrtResolution)

Size(a) == Cardinality(DOMAIN a)
Indices(n) == 0 .. (n - 1)

\* terms[lo] + ... + terms[hi-1], for lo < hi
RECURSIVE SumRange(_, _, _)
SumRange(terms, lo, hi) ==
    IF hi - lo = 1 THEN terms[lo]
    ELSE LET mid == (lo + hi) \div 2
         IN  RAdd(SumRange(terms, lo, mid), SumRange(terms, mid, hi))

\* start + terms[0] + ... + terms[n-1] (the kernels' "for index in range(n):
\* x += ..." loops; the rationals being exact, the sum does not depend on the
\* order in which it is accumulated)
Accumulate(terms, n, start) ==
    IF n = 0 THEN start ELSE RAdd(start, SumRange(terms, 0, n))

(***************************************************************************)
(* Kernel launch geometry: kernel[blocks, threads_per_block](...).         *)
(***************************************************************************)
BlocksPerGrid(size) == (size + (ThreadsPerBlock - 1)) \div ThreadsPerBlock
\* cuda.threadIdx.x + cuda.blockIdx.x*cuda.blockDim.x
GlobalIndex(blockIdx, threadIdx) == threadIdx + blockIdx * ThreadsPerBlock
\* the global indices of the threads of a grid, and of one of its blocks
Workers(blocks) == GlobalIndex(0, 0) .. GlobalIndex(blocks - 1, ThreadsPerBlock - 1)
BlockWorkers(blockIdx) ==
    GlobalIndex(blockIdx, 0) .. GlobalIndex(blockIdx, ThreadsPerBlock - 1)

(***************************************************************************)
(* math.sin(2*math.pi*frequency*time): frequency in units of               *)
(* BaseFrequency, time in ticks, so frequency*time counts quarter turns.   *)
(***************************************************************************)
BaseFrequency == 5 * 100                 \* Hz per frequency unit
TicksPerSecond == 4 * BaseFrequency      \* ticks of the time grid per second
SinQuarter(frequency_, time) ==
    LET q == (frequency_ * time) % 4
    IN  IF q = 1 THEN One ELSE IF q = 3 THEN Num(-1) ELSE Zero

(***************************************************************************)
(* reconstruct_ista_sparse_step(step_size, amplitude)                      *)
(***************************************************************************)
\* the elements of amplitude_ that worker w reads and writes
sparse_step_accesses(w, size) == IF w < size THEN {w} ELSE {}

\* amplitude_[time_index]*amplitude_previous_ < 0, in doubles: with `tiny_` both
\* operands are multiples k*2^-540 (given here by k) and the product rounds to
\* zero when it is at most half the smallest subnormal; otherwise it is exact
ProductIsNegative(a, b, tiny_) ==
    IF tiny_
    THEN a[2] = 1 /\ b[2] = 1 /\ a[1] * b[1] < -UnderflowHalfUlp
    ELSE RSign(a) * RSign(b) < 0

sparse_step_worker(step_size, amplitude_previous_, tiny_) ==
    LET stepped ==
            IF RSign(amplitude_previous_) > 0
            THEN RSub(amplitude_previous_, step_size)
            ELSE IF RSign(amplitude_previous_) < 0
                 THEN RAdd(amplitude_previous_, step_size)
                 ELSE amplitude_previous_
    IN  \* Set to zero rather than oscillate
        IF ProductIsNegative(stepped, amplitude_previous_, tiny_)
        THEN Zero
        ELSE stepped

reconstruct_ista_sparse_step(blocks, step_size, amplitude_, tiny_) ==
    [t \in DOMAIN amplitude_ |->
        IF \E w \in Workers(blocks) : t \in sparse_step_accesses(w, Size(amplitude_))
        THEN sparse_step_worker(step_size, amplitude_[t], tiny_)
        ELSE amplitude_[t]]

(***************************************************************************)
(* reconstruct_ista_prediction_step(frequency_amplitude, amplitude,        *)
(*     fourier_transform, frequency_amplitude_prediction)                  *)
(***************************************************************************)
prediction_step_accesses(w, size) == IF w < size THEN {w} ELSE {}

\* mutant: the measured coefficient is added instead of subtracted
prediction_step_worker_sign(frequency_index, frequency_amplitude_, amplitude_, fourier_transform_) ==
    Accumulate(
        [t \in DOMAIN amplitude_ |->
            RMul(fourier_transform_[frequency_index][t], amplitude_[t])],
        Size(amplitude_),
        frequency_amplitude_[frequency_index])

prediction_step_worker(frequency_index, frequency_amplitude_, amplitude_, fourier_transform_) ==
    Accumulate(
        [t \in DOMAIN amplitude_ |->
            RMul(fourier_transform_[frequency_index][t], amplitude_[t])],
        Size(amplitude_),
        RNeg(frequency_amplitude_[frequency_index]))

reconstruct_ista_prediction_step(blocks, frequency_amplitude_, amplitude_, fourier_transform_, frequency_amplitude_prediction_) ==
    [f \in DOMAIN frequency_amplitude_prediction_ |->
        IF \E w \in Workers(blocks) :
              f \in prediction_step_accesses(w, Size(frequency_amplitude_prediction_))
        THEN prediction_step_worker(f, frequency_amplitude_, amplitude_, fourier_transform_)
        ELSE frequency_amplitude_prediction_[f]]

(***************************************************************************)
(* reconstruct_sista_manifold_step(frequency_amplitude_prediction,         *)
(*     step_size, fourier_transform, amplitude)                            *)
(***************************************************************************)
manifold_step_accesses(w, size) == IF w < size THEN {w} ELSE {}

\* mutant: the reduction stops one frequency short
manifold_step_worker_short(time_index, frequency_amplitude_prediction_, step_size, fourier_transform_, amplitude_) ==
    Accumulate(
        [f \in DOMAIN frequency_amplitude_prediction_ |->
            RNeg(RMul(RMul(fourier_transform_[f][time_index],
                           frequency_amplitude_prediction_[f]), step_size))],
        Size(frequency_amplitude_prediction_) - 1,
        amplitude_[time_index])

manifold_step_worker(time_index, frequency_amplitude_prediction_, step_size, fourier_transform_, amplitude_) ==
    Accumulate(
        [f \in DOMAIN frequency_amplitude_prediction_ |->
            RNeg(RMul(RMul(fourier_transform_[f][time_index],
                           frequency_amplitude_prediction_[f]), step_size))],
        Size(frequency_amplitude_prediction_),
        amplitude_[time_index])

reconstruct_sista_manifold_step(blocks, frequency_amplitude_prediction_, step_size, fourier_transform_, amplitude_) ==
    [t \in DOMAIN amplitude_ |->
        IF \E w \in Workers(blocks) : t \in manifold_step_accesses(w, Size(amplitude_))
        THEN manifold_step_worker(t, frequency_amplitude_prediction_, step_size,
                                  fourier_transform_, amplitude_)
        ELSE amplitude_[t]]

(***************************************************************************)
(* reconstruct_ista_initialisation_step(frequency, frequency_amplitude,    *)
(*     time_step_coarse, time_coarse, amplitude, fourier_transform)        *)
(***************************************************************************)
\* a launch whose first worker returns before it stores anything
initialisation_step_accesses_skip(w, size) == IF w < size /\ w # 0 THEN {w} ELSE {}

initialisation_step_accesses(w, size) == IF w < size THEN {w} ELSE {}

\* fourier_transform[frequency_index, time_index] (line 255)
initialisation_step_coefficient(frequency_index, time_index, frequency_, time_step_coarse_, time_coarse_) ==
    RDiv(RMul(SinQuarter(frequency_[frequency_index], time_coarse_[time_index]),
              Num(time_step_coarse_)),
         Num(time_coarse_[Size(time_coarse_) - 1]))

\* amplitude[time_index] (lines 252-257)
initialisation_step_worker(time_index, frequency_, frequency_amplitude_, time_step_coarse_, time_coarse_) ==
    Accumulate(
        [f \in DOMAIN frequency_ |->
            RMul(RMul(RMul(Num(2),
                           initialisation_step_coefficient(f, time_index, frequency_,
                                                           time_step_coarse_, time_coarse_)),
                      RDiv(Num(time_coarse_[Size(time_coarse_) - 1]), Num(time_step_coarse_))),
                 frequency_amplitude_[f])],
        Size(frequency_),
        Zero)

reconstruct_ista_initialisation_step(blocks, frequency_, frequency_amplitude_, time_step_coarse_, time_coarse_, amplitude_, fourier_transform_) ==
    LET written(t) ==
            \E w \in Workers(blocks) :
                t \in initialisation_step_accesses(w, Size(time_coarse_))
    IN  [amplitude |->
            [t \in DOMAIN amplitude_ |->
                IF written(t)
                THEN initialisation_step_worker(t, frequency_, frequency_amplitude_,
                                                time_step_coarse_, time_coarse_)
                ELSE amplitude_[t]],
         fourier_transform |->
            [f \in DOMAIN fourier_transform_ |->
                [t \in DOMAIN fourier_transform_[f] |->
                    IF written(t)
                    THEN initialisation_step_coefficient(f, t, frequency_,
                                                         time_step_coarse_, time_coarse_)
                    ELSE fourier_transform_[f][t]]]]

(***************************************************************************)
(* reconstruct_ista_complete(time_coarse, amplitude, frequency,             *)
(*     frequency_amplitude, frequency_amplitude_prediction,                *)
(*     fourier_transform, time_step_coarse, sparse_penalty, min_accuracy,  *)
(*     expected_amplitude)                                                 *)
(* cuda.syncthreads() holds back the threads of one block only, so the     *)
(* kernel is followed block by block: each block runs the stretch between  *)
(* two of its barriers as one step.                                        *)
(***************************************************************************)
\* the last three arguments of the launch (line 90)
SparsePenalty == 0
MinAccuracy == 100
ExpectedAmplitude == 10

\* math.ceil
Ceil(a) == (a[1] + a[2] - 1) \div a[2]

\* a number of ticks, in seconds
Seconds(ticks) == Rat(ticks, TicksPerSecond)

\* the elements of amplitude_ that worker w reads and writes: the guarded
\* writes of lines 207-208 and 232-234, and the shrinkage of lines 237-241
complete_accesses(w, size) == (IF w < size THEN {w} ELSE {}) \cup {w}

\* fourier_transform[frequency_index, time_index] (line 211)
complete_coefficient(frequency_index, time_index, frequency_, time_step_coarse_, time_coarse_) ==
    RDiv(RMul(SinQuarter(frequency_[frequency_index], time_coarse_[time_index]),
              Num(time_step_coarse_)),
         Num(time_coarse_[Size(time_coarse_) - 1] - time_coarse_[0]))

\* step_size (line 215)
complete_step_size(time_coarse_, time_step_coarse_) ==
    RDiv(Num(time_coarse_[Size(time_coarse_) - 1] - time_coarse_[0]), Num(time_step_coarse_))

\* mutant: the ratio of the amplitudes is not squared
max_iteration_index_unsquared(time_coarse_, time_step_coarse_, min_accuracy, expected_amplitude) ==
    Ceil(RDiv(RDiv(RDiv(expected_amplitude, RMul(Num(1000), Seconds(time_step_coarse_))),
                   min_accuracy),
              complete_step_size(time_coarse_, time_step_coarse_)))

\* max_iteration_index (line 216)
max_iteration_index(time_coarse_, time_step_coarse_, min_accuracy, expected_amplitude) ==
    LET ratio == RDiv(expected_amplitude, RMul(Num(1000), Seconds(time_step_coarse_)))
    IN  Ceil(RDiv(RDiv(RMul(ratio, ratio), min_accuracy),
                  complete_step_size(time_coarse_, time_step_coarse_)))

\* lines 206-211, by the threads of one block
complete_initialise(blockIdx, time_coarse_, frequency_, time_step_coarse_, amplitude_, fourier_transform_) ==
    LET written(t) == t \in BlockWorkers(blockIdx) /\ t < Size(time_coarse_)
    IN  [amplitude |->
            [t \in DOMAIN amplitude_ |-> IF written(t) THEN Zero ELSE amplitude_[t]],
         fourier_transform |->
            [f \in DOMAIN fourier_transform_ |->
                [t \in DOMAIN fourier_transform_[f] |->
                    IF written(t)
                    THEN complete_coefficient(f, t, frequency_, time_step_coarse_,
                                              time_coarse_)
                    ELSE fourier_transform_[f][t]]]]

\* lines 222-224: the candidate's factor is the literal 0.0
complete_prediction_worker(frequency_index, frequency_amplitude_, fourier_transform_, size) ==
    Accumulate(
        [t \in Indices(size) |-> RMul(fourier_transform_[frequency_index][t], Zero)],
        size,
        RNeg(frequency_amplitude_[frequency_index]))

\* lines 220-224, by the threads of one block
complete_prediction(blockIdx, time_coarse_, frequency_amplitude_, frequency_amplitude_prediction_, fourier_transform_) ==
    [f \in DOMAIN frequency_amplitude_prediction_ |->
        IF f \in BlockWorkers(blockIdx) /\ f < Size(frequency_amplitude_prediction_)
        THEN complete_prediction_worker(f, frequency_amplitude_, fourier_transform_,
                                        Size(time_coarse_))
        ELSE frequency_amplitude_prediction_[f]]

\* lines 233-234
complete_linear_inverse_worker(time_index, frequency_amplitude_prediction_, step_size, fourier_transform_, amplitude_) ==
    Accumulate(
        [f \in DOMAIN frequency_amplitude_prediction_ |->
            RNeg(RMul(RMul(RMul(Num(2), fourier_transform_[f][time_index]),
                           frequency_amplitude_prediction_[f]), step_size))],
        Size(frequency_amplitude_prediction_),
        amplitude_[time_index])

\* lines 237-241: math.copysign(amplitude_temporary, amplitude[time_index]) or 0
complete_shrinkage_worker(x, step_size, sparse_penalty) ==
    LET amplitude_temporary == RSub(RAbs(x), RMul(step_size, sparse_penalty))
    IN  IF RSign(amplitude_temporary) > 0
        THEN IF RSign(x) < 0 THEN RNeg(amplitude_temporary) ELSE amplitude_temporary
        ELSE Zero

\* lines 231-241, by the threads of one block, on the elements the buffer has
complete_linear_inverse(blockIdx, time_coarse_, frequency_amplitude_prediction_, step_size, sparse_penalty, fourier_transform_, amplitude_) ==
    [t \in DOMAIN amplitude_ |->
        IF t \in BlockWorkers(blockIdx)
        THEN complete_shrinkage_worker(
                 IF t < Size(time_coarse_)
                 THEN complete_linear_inverse_worker(t, frequency_amplitude_prediction_,
                          step_size, fourier_transform_, amplitude_)
                 ELSE amplitude_[t],
                 step_size, sparse_penalty)
        ELSE amplitude_[t]]

(***************************************************************************)
(* What the workers of one launch touch: for each element of the output    *)
(* buffer the workers that access it, and the workers that access an index *)
(* outside the buffer.  accesses[w] is the set of indices worker w uses.   *)
(***************************************************************************)
NoLaunch == [kernel |-> "none", writers |-> <<>>, outOfBounds |-> {}, unsynchronised |-> {}]

LaunchLog(kernel, size, accesses) ==
    [kernel |-> kernel,
     writers |-> [e \in Indices(size) |-> {w \in DOMAIN accesses : e \in accesses[w]}],
     outOfBounds |-> {w \in DOMAIN accesses : accesses[w] \ Indices(size) # {}},
     \* the reads of a buffer made before a writer of the buffer had finished
     unsynchronised |-> {}]

Snapshot(step_size) ==
    [amplitude |-> amplitude,
     frequency_amplitude |-> frequency_amplitude,
     frequency_amplitude_prediction |-> frequency_amplitude_prediction,
     fourier_transform |-> fourier_transform,
     step_size |-> step_size]

\* an archive nothing has been written to
NoArchive ==
    [time_coarse |-> None, frequency |-> None, frequency_amplitude |-> None,
     amplitude |-> None]

NoSnapshot ==
    [amplitude |-> None, frequency_amplitude |-> None,
     frequency_amplitude_prediction |-> None, fourier_transform |-> None,
     step_size |-> None]

(***************************************************************************)
(* The kernels launched on their own, on buffers of any content            *)
(* (specification SpecKernel).                                             *)
(***************************************************************************)
AmplitudeValues == {Num(-5), Zero, Num(2)}
OperatorValues == {Num(-1), <<1, 2>>}
MeasuredValues == {One, Num(-2)}
GarbageValues == {Num(-7), Num(9)}
StepValues == {<<1, 2>>, Num(2), Num(12)}

sessionIdle ==
    /\ time_coarse = None /\ time_step_coarse = None
    /\ step_size_sparse = None /\ step_size_manifold = None
    /\ frequency = None
    /\ callerFrequency = None /\ callerAmplitude = None /\ archive = NoArchive
    /\ naive_kernels_defined = FALSE
    /\ pc = "kernel" /\ amplitude_previous = None
    /\ fast_step_size = None /\ fastStep_size_previous = None
    /\ permutation = None /\ ingested = None /\ operatorBuilds = 0
    /\ blockState = None
    /\ iteration = 0 /\ stepTrace = <<>> /\ raised = NoException /\ hadRun = FALSE

InitKernel ==
    /\ sessionIdle
    /\ \E T \in 1 .. MaxT, F \in 1 .. MaxF :
          /\ amplitude \in [Indices(T) -> AmplitudeValues]
          /\ tiny \in BOOLEAN
          /\ fourier_transform \in
                IF tiny THEN {[f \in Indices(F) |-> [t \in Indices(T) |-> Zero]]}
                ELSE [Indices(F) -> {[t \in Indices(T) |-> v] : v \in OperatorValues}
                                    \cup {[t \in Indices(T) |-> IF t = 0 THEN One ELSE Num(-1)]}]
          /\ frequency_amplitude \in
                IF tiny THEN {[f \in Indices(F) |-> One]}
                ELSE [Indices(F) -> MeasuredValues]
          /\ \E g \in (IF tiny THEN {Zero} ELSE GarbageValues) :
                frequency_amplitude_prediction = [f \in Indices(F) |-> g]
    /\ pre = NoSnapshot
    /\ launch = NoLaunch

kernelFrame ==
    UNCHANGED <<time_coarse, time_step_coarse, step_size_sparse,
                step_size_manifold, frequency, callerFrequency, callerAmplitude,
                naive_kernels_defined, pc, amplitude_previous, fast_step_size, fastStep_size_previous,
                permutation, ingested, operatorBuilds, blockState, tiny, iteration,
                stepTrace, raised, hadRun, archive>>

LaunchSparse ==
    /\ pc = "kernel" /\ launch = NoLaunch
    /\ \E step_size \in StepValues :
          /\ tiny => step_size[2] = 1
          /\ LET blocks == BlocksPerGrid(Size(amplitude)) IN
             /\ pre' = Snapshot(step_size)
             /\ amplitude' = reconstruct_ista_sparse_step(blocks, step_size, amplitude, tiny)
             /\ launch' = LaunchLog("sparse", Size(amplitude),
                    [w \in Workers(blocks) |-> sparse_step_accesses(w, Size(amplitude))])
    /\ UNCHANGED <<frequency_amplitude, frequency_amplitude_prediction, fourier_transform>>
    /\ kernelFrame

LaunchPrediction ==
    /\ pc = "kernel" /\ launch = NoLaunch /\ ~tiny
    /\ LET blocks == BlocksPerGrid(Size(frequency_amplitude)) IN
         /\ pre' = Snapshot(None)
         /\ frequency_amplitude_prediction' =
                reconstruct_ista_prediction_step(blocks, frequency_amplitude, amplitude,
                    fourier_transform, frequency_amplitude_prediction)
         /\ launch' = LaunchLog("prediction", Size(frequency_amplitude_prediction),
                [w \in Workers(blocks) |->
                    prediction_step_accesses(w, Size(frequency_amplitude_prediction))])
    /\ UNCHANGED <<amplitude, frequency_amplitude, fourier_transform>>
    /\ kernelFrame

LaunchManifold ==
    /\ pc = "kernel" /\ launch = NoLaunch /\ ~tiny
    /\ \E step_size \in StepValues :
          LET blocks == BlocksPerGrid(Size(amplitude)) IN
             /\ pre' = Snapshot(step_size)
             /\ amplitude' = reconstruct_sista_manifold_step(blocks,
                    frequency_amplitude_prediction, step_size, fourier_transform, amplitude)
             /\ launch' = LaunchLog("manifold", Size(amplitude),
                    [w \in Workers(blocks) |-> manifold_step_accesses(w, Size(amplitude))])
    /\ UNCHANGED <<frequency_amplitude, frequency_amplitude_prediction, fourier_transform>>
    /\ kernelFrame

NextKernel == LaunchSparse \/ LaunchPrediction \/ LaunchManifold

SpecKernel == InitKernel /\ [][NextKernel]_vars

(***************************************************************************)
(* The claims about single kernels (SpecKernel).                           *)
(***************************************************************************)
\* the sum of terms[i] over i in S, in any order
RECURSIVE SumOver(_, _)
SumOver(terms, S) ==
    IF S = {} THEN Zero
    ELSE LET i == CHOOSE j \in S : TRUE
         IN  RAdd(terms[i], SumOver(terms, S \ {i}))

\* the soft threshold: x - s*sign(x) when |x| > s, and 0 otherwise
SoftThreshold(x, s) ==
    IF RLess(s, RAbs(x)) THEN RSub(x, RMul(s, Num(RSign(x)))) ELSE Zero

\* C1: after the shrinkage kernel every element x of the candidate has become
\* x - stepSize*sign(x) when |x| > stepSize and exactly 0 when |x| <= stepSize;
\* the result never has the opposite sign to x, and every element depends on
\* its own previous value only.
C1_ShrinkageContract ==
    launch.kernel = "sparse" =>
        \A t \in DOMAIN amplitude :
            /\ amplitude[t] = SoftThreshold(pre.amplitude[t], pre.step_size)
            /\ RSign(amplitude[t]) * RSign(pre.amplitude[t]) >= 0

\* (C1 holds of the kernel whenever the product of line 282 does not underflow)
ShrinkageContractWithoutUnderflow == ~tiny => C1_ShrinkageContract

\* C2: after the prediction kernel, residual[f] = (sum over t of
\* operator[f,t]*candidate[t]) - measured[f] for every f, whatever the residual
\* buffer held before; candidate, operator and measured are unchanged.
C2_PredictionContract ==
    launch.kernel = "prediction" =>
        /\ \A f \in DOMAIN frequency_amplitude_prediction :
              frequency_amplitude_prediction[f] =
                  RSub(SumOver([t \in DOMAIN pre.amplitude |->
                                   RMul(pre.fourier_transform[f][t], pre.amplitude[t])],
                               DOMAIN pre.amplitude),
                       pre.frequency_amplitude[f])
        /\ DOMAIN frequency_amplitude_prediction = DOMAIN pre.frequency_amplitude
        /\ amplitude = pre.amplitude
        /\ fourier_transform = pre.fourier_transform
        /\ frequency_amplitude = pre.frequency_amplitude

\* a prediction launch over two time samples whose products are both non-zero,
\* on a residual buffer that held something else
C2_Witness ==
    /\ launch.kernel = "prediction"
    /\ Size(amplitude) = 2
    /\ \A t \in DOMAIN amplitude : amplitude[t] # Zero
    /\ \E f \in DOMAIN frequency_amplitude_prediction :
          frequency_amplitude_prediction[f] # pre.frequency_amplitude_prediction[f]

\* C3: after the manifold kernel, candidate'[t] = candidate[t] - stepSize *
\* (sum over f of operator[f,t]*residual[f]) for every t, with the residual
\* and operator of the launch; residual and operator are unchanged.
C3_ManifoldContract ==
    launch.kernel = "manifold" =>
        /\ \A t \in DOMAIN amplitude :
              amplitude[t] =
                  RSub(pre.amplitude[t],
                       RMul(pre.step_size,
                            SumOver([f \in DOMAIN pre.frequency_amplitude_prediction |->
                                        RMul(pre.fourier_transform[f][t],
                                             pre.frequency_amplitude_prediction[f])],
                                    DOMAIN pre.frequency_amplitude_prediction)))
        /\ DOMAIN amplitude = DOMAIN pre.amplitude
        /\ frequency_amplitude_prediction = pre.frequency_amplitude_prediction
        /\ fourier_transform = pre.fourier_transform

\* a manifold launch with two frequencies that moved some element
C3_Witness ==
    /\ launch.kernel = "manifold"
    /\ Size(frequency_amplitude_prediction) = 2
    /\ \E t \in DOMAIN amplitude : amplitude[t] # pre.amplitude[t]

(***************************************************************************)
(* The session: Reconstruction.__init__ and read_frequencies_directly.     *)
(***************************************************************************)
\* the (first time, time step) of the time grids, in ticks
TimeGrids == {<<0, 1>>, <<0, 2>>, <<1, 1>>}
SparseStepSizes == {<<1, 4>>, <<1, 2>>}
ManifoldStepSizes == {One}
FrequencyCutoffs == {2, 4}
\* the caller's (frequency, frequency_amplitude) arrays
CallerInputs ==
    {<<(0 :> 1 @@ 1 :> 3), (0 :> One @@ 1 :> Num(2))>>,
     <<(0 :> 3 @@ 1 :> 1), (0 :> Num(2) @@ 1 :> Num(-1))>>}

noLocals ==
    /\ frequency_amplitude_prediction = None /\ fourier_transform = None
    /\ amplitude_previous = None /\ fast_step_size = None
    /\ fastStep_size_previous = None /\ blockState = None

dropLocals ==
    /\ frequency_amplitude_prediction' = None /\ fourier_transform' = None
    /\ amplitude_previous' = None /\ fast_step_size' = None
    /\ fastStep_size_previous' = None /\ blockState' = None

historyStart ==
    /\ tiny = FALSE /\ pre = NoSnapshot /\ launch = NoLaunch /\ iteration = 0
    /\ stepTrace = <<>> /\ raised = NoException /\ hadRun = FALSE /\ permutation = None
    /\ ingested = None /\ operatorBuilds = 0 /\ archive = NoArchive

\* Reconstruction(time_properties, step_size_sparse, step_size_manifold)
ReconstructionWith(sizes, inputs) ==
    /\ \E grid \in TimeGrids, T \in sizes :
          /\ time_coarse = [i \in Indices(T) |-> grid[1] + i * grid[2]]
          /\ time_step_coarse = grid[2]
    /\ step_size_sparse \in SparseStepSizes
    /\ step_size_manifold \in ManifoldStepSizes
    /\ frequency = None /\ frequency_amplitude = None /\ amplitude = None
    /\ \E input \in inputs :
          callerFrequency = input[1] /\ callerAmplitude = input[2]
    /\ naive_kernels_defined \in BOOLEAN
    /\ pc = "idle"
    /\ noLocals
    /\ historyStart

Reconstruction(sizes) == ReconstructionWith(sizes, CallerInputs)

Init == Reconstruction(2 .. MaxT)

settings ==
    UNCHANGED <<time_coarse, time_step_coarse, step_size_sparse, step_size_manifold,
                callerFrequency, callerAmplitude, naive_kernels_defined, tiny, archive>>

configuration == settings /\ UNCHANGED pre

samplesKept == UNCHANGED <<frequency, frequency_amplitude, permutation, ingested>>

samples == samplesKept /\ UNCHANGED operatorBuilds

\* one more operator has been computed for the stored samples
operatorBuilt == operatorBuilds' = IF operatorBuilds < MaxBuilds THEN operatorBuilds + 1 ELSE MaxBuilds

\* mutant: the amplitudes are taken in the caller's order, not the drawn one
read_frequencies_directly_unpaired(frequency_, frequency_amplitude_, number_of_samples, frequency_cutoff) ==
    LET eligible == Cardinality({i \in DOMAIN frequency_ : frequency_[i] < frequency_cutoff})
    IN  /\ pc = "idle"
        /\ IF eligible = 0
           THEN \* np.random.choice: "a must be non-empty"
                /\ raised' = "ValueError"
                /\ samples
           ELSE /\ permutation' \in [Indices(number_of_samples) -> Indices(eligible)]
                /\ frequency' = [i \in Indices(number_of_samples) |-> frequency_[permutation'[i]]]
                /\ frequency_amplitude' =
                       [i \in Indices(number_of_samples) |-> frequency_amplitude_[i]]
                /\ ingested' = [number_of_samples |-> number_of_samples,
                                 frequency_cutoff |-> frequency_cutoff]
                /\ operatorBuilds' = 0
                /\ raised' = NoException
        /\ UNCHANGED <<amplitude, pc, frequency_amplitude_prediction, fourier_transform,
                       amplitude_previous, fast_step_size, fastStep_size_previous,
                       blockState, launch, iteration, stepTrace, hadRun>>
        /\ configuration

read_frequencies_directly(frequency_, frequency_amplitude_, number_of_samples, frequency_cutoff) ==
    LET eligible == Cardinality({i \in DOMAIN frequency_ : frequency_[i] < frequency_cutoff})
    IN  /\ pc = "idle"
        /\ IF eligible = 0
           THEN \* np.random.choice: "a must be non-empty"
                /\ raised' = "ValueError"
                /\ samples
           ELSE /\ permutation' \in [Indices(number_of_samples) -> Indices(eligible)]
                /\ frequency' = [i \in Indices(number_of_samples) |-> frequency_[permutation'[i]]]
                /\ frequency_amplitude' =
                       [i \in Indices(number_of_samples) |-> frequency_amplitude_[permutation'[i]]]
                /\ ingested' = [number_of_samples |-> number_of_samples,
                                 frequency_cutoff |-> frequency_cutoff]
                /\ operatorBuilds' = 0
                /\ raised' = NoException
        /\ UNCHANGED <<amplitude, pc, frequency_amplitude_prediction, fourier_transform,
                       amplitude_previous, fast_step_size, fastStep_size_previous,
                       blockState, launch, iteration, stepTrace, hadRun>>
        /\ configuration

ReadFrequencies ==
    \E number_of_samples \in 1 .. MaxF, frequency_cutoff \in FrequencyCutoffs :
        read_frequencies_directly(callerFrequency, callerAmplitude,
                                  number_of_samples, frequency_cutoff)

(***************************************************************************)
(* write_to_file(archive): the datasets are assigned in the order of lines *)
(* 48-51; an hdf5 group refuses None ("One of data, shape or dtype must be *)
(* specified"), which ends the call with what was written before.  The     *)
(* model follows a session up to its export.                               *)
(***************************************************************************)
write_to_file(frequency_, frequency_amplitude_, amplitude_) ==
    /\ pc = "idle"
    /\ archive' =
           [time_coarse |-> time_coarse,
            frequency |-> frequency_,
            frequency_amplitude |->
                IF frequency_ = None THEN None ELSE frequency_amplitude_,
            amplitude |->
                IF frequency_ = None \/ frequency_amplitude_ = None THEN None
                ELSE amplitude_]
    /\ raised' =
           IF frequency_ = None \/ frequency_amplitude_ = None \/ amplitude_ = None
           THEN "TypeError" ELSE NoException
    /\ pc' = "exported"
    /\ UNCHANGED <<time_coarse, time_step_coarse, step_size_sparse, step_size_manifold,
                   frequency, frequency_amplitude, amplitude, callerFrequency,
                   callerAmplitude, naive_kernels_defined, frequency_amplitude_prediction,
                   fourier_transform, amplitude_previous, fast_step_size,
                   fastStep_size_previous, permutation, blockState, tiny, pre, ingested,
                   operatorBuilds, launch, iteration, stepTrace, hadRun>>

WriteToFile == write_to_file(frequency, frequency_amplitude, amplitude)

(***************************************************************************)
(* evaluate_fista                                                          *)
(***************************************************************************)
\* np.empty_like / np.empty: the content is whatever the memory held
EmptyArray(size, garbage) == [i \in Indices(size) |-> garbage]

\* sum((amplitude - amplitude_previous)**2)
SquaredChange(amplitude_, amplitude_previous_) ==
    Accumulate(
        [t \in DOMAIN amplitude_ |->
            RMul(RSub(amplitude_[t], amplitude_previous_[t]),
                 RSub(amplitude_[t], amplitude_previous_[t]))],
        Size(amplitude_),
        Zero)

\* ... > 1e0
\* mutant: the test compares the change itself, not its square
fista_continues_unsquared(amplitude_, amplitude_previous_) ==
    RLess(Num(ConvergenceThresholdFista),
          Accumulate([t \in DOMAIN amplitude_ |->
                         RSub(amplitude_[t], amplitude_previous_[t])],
                     Size(amplitude_), Zero))

\* mutant: the test also fails at the threshold itself
fista_continues_inclusive(amplitude_, amplitude_previous_) ==
    ~RLess(SquaredChange(amplitude_, amplitude_previous_), Num(ConvergenceThresholdFista))

fista_continues(amplitude_, amplitude_previous_) ==
    RLess(Num(ConvergenceThresholdFista), SquaredChange(amplitude_, amplitude_previous_))

\* (1 + math.sqrt(1 + 4*fast_step_size**2))/2
next_fast_step_size(fast_step_size_) ==
    RDiv(RAdd(One, RSqrt(RAdd(One, RMul(Num(4), RMul(fast_step_size_, fast_step_size_))))),
         Num(2))

\* mutant: the coefficient is taken from the new step size alone
fast_step_coefficient_new(fastStep_size_previous_, fast_step_size_) ==
    RDiv(RSub(fast_step_size_, One), fast_step_size_)

\* mutant: the previous step size is not reduced by one
fast_step_coefficient_unshifted(fastStep_size_previous_, fast_step_size_) ==
    RDiv(fastStep_size_previous_, fast_step_size_)

\* (fastStep_size_previous - 1)/fast_step_size
fast_step_coefficient(fastStep_size_previous_, fast_step_size_) ==
    RDiv(RSub(fastStep_size_previous_, One), fast_step_size_)

beginRun(next_pc) ==
    /\ pc = "idle"
    /\ \E garbage \in GarbageValues :
          /\ amplitude' = EmptyArray(Size(time_coarse), garbage)
          /\ IF frequency = None
             THEN \* self.frequency.size: None has no attribute size
                  /\ raised' = "AttributeError"
                  /\ pc' = "idle"
                  /\ UNCHANGED <<frequency_amplitude_prediction, fourier_transform>>
             ELSE /\ raised' = NoException
                  /\ pc' = next_pc
                  /\ frequency_amplitude_prediction' =
                         EmptyArray(Size(frequency_amplitude), garbage)
                  /\ fourier_transform' =
                         [f \in DOMAIN frequency |-> EmptyArray(Size(time_coarse), garbage)]
    /\ iteration' = 0 /\ stepTrace' = <<>> /\ launch' = NoLaunch /\ pre' = NoSnapshot
    /\ UNCHANGED <<amplitude_previous, fast_step_size, fastStep_size_previous,
                   blockState, hadRun>>
    /\ samples /\ settings

\* lines 96-114
FistaBegin == beginRun("fista_init")

\* lines 117-121
FistaInitialise ==
    /\ pc = "fista_init"
    /\ LET blocks == BlocksPerGrid(Size(time_coarse))
           result == reconstruct_ista_initialisation_step(blocks, frequency,
                         frequency_amplitude, time_step_coarse, time_coarse,
                         amplitude, fourier_transform)
       IN  /\ amplitude' = result.amplitude
           /\ fourier_transform' = result.fourier_transform
           /\ amplitude_previous' = [t \in DOMAIN amplitude |-> RMul(Zero, amplitude'[t])]
           /\ launch' = LaunchLog("initialisation", Size(time_coarse),
                  [w \in Workers(blocks) |->
                      initialisation_step_accesses(w, Size(time_coarse))])
    /\ fast_step_size' = One
    /\ fastStep_size_previous' = One
    /\ pc' = "fista_test"
    /\ UNCHANGED <<frequency_amplitude_prediction, blockState, iteration, stepTrace,
                   raised, hadRun>>
    /\ samplesKept /\ operatorBuilt /\ configuration

returnFromRun ==
    /\ pc' = "idle"
    /\ dropLocals
    /\ hadRun' = TRUE
    /\ UNCHANGED <<amplitude, launch, iteration, stepTrace, raised>>
    /\ samples /\ configuration

\* line 123, then line 124 or lines 136-138
FistaTest ==
    /\ pc = "fista_test"
    /\ IF fista_continues(amplitude, amplitude_previous)
       THEN /\ iteration < MaxIter
            /\ amplitude_previous' = amplitude
            /\ pc' = "fista_prediction"
            /\ stepTrace' = <<>>
            /\ UNCHANGED <<amplitude, frequency_amplitude_prediction, fourier_transform,
                           fast_step_size, fastStep_size_previous, blockState, launch,
                           iteration, raised, hadRun>>
            /\ samples /\ configuration
       ELSE returnFromRun

predictionLaunch(this_pc, next_pc) ==
    /\ pc = this_pc
    /\ LET blocks == BlocksPerGrid(Size(frequency)) IN
         /\ frequency_amplitude_prediction' =
                reconstruct_ista_prediction_step(blocks, frequency_amplitude, amplitude,
                    fourier_transform, frequency_amplitude_prediction)
         /\ launch' = LaunchLog("prediction", Size(frequency_amplitude_prediction),
                [w \in Workers(blocks) |->
                    prediction_step_accesses(w, Size(frequency_amplitude_prediction))])
    /\ pc' = next_pc
    /\ stepTrace' = Append(stepTrace, "prediction")
    /\ UNCHANGED <<amplitude, fourier_transform, amplitude_previous, fast_step_size,
                   fastStep_size_previous, blockState, iteration, raised, hadRun>>
    /\ samples /\ configuration

manifoldLaunch(this_pc, next_pc, iterations) ==
    /\ pc = this_pc
    /\ LET blocks == BlocksPerGrid(Size(time_coarse)) IN
         /\ amplitude' = reconstruct_sista_manifold_step(blocks,
                frequency_amplitude_prediction, step_size_manifold, fourier_transform,
                amplitude)
         /\ launch' = LaunchLog("manifold", Size(amplitude),
                [w \in Workers(blocks) |-> manifold_step_accesses(w, Size(amplitude))])
    /\ pc' = next_pc
    /\ stepTrace' = Append(stepTrace, "manifold")
    /\ iteration' = iteration + iterations
    /\ UNCHANGED <<frequency_amplitude_prediction, fourier_transform, amplitude_previous,
                   fast_step_size, fastStep_size_previous, blockState, raised, hadRun>>
    /\ samples /\ configuration

sparseLaunch(this_pc, next_pc) ==
    /\ pc = this_pc
    /\ LET blocks == BlocksPerGrid(Size(time_coarse)) IN
         /\ amplitude' = reconstruct_ista_sparse_step(blocks, step_size_sparse,
                amplitude, tiny)
         /\ launch' = LaunchLog("sparse", Size(amplitude),
                [w \in Workers(blocks) |-> sparse_step_accesses(w, Size(amplitude))])
    /\ pc' = next_pc
    /\ stepTrace' = Append(stepTrace, "sparse")
    /\ UNCHANGED <<frequency_amplitude_prediction, fourier_transform, amplitude_previous,
                   fast_step_size, fastStep_size_previous, blockState, iteration,
                   raised, hadRun>>
    /\ samples /\ configuration

\* line 127
FistaPrediction == predictionLaunch("fista_prediction", "fista_manifold")
\* line 128
FistaManifold == manifoldLaunch("fista_manifold", "fista_sparse", 0)
\* line 129
FistaSparse == sparseLaunch("fista_sparse", "fista_fast")

\* lines 132-134
FistaFastStep ==
    /\ pc = "fista_fast"
    /\ fastStep_size_previous' = fast_step_size
    /\ fast_step_size' = next_fast_step_size(fast_step_size)
    /\ amplitude' =
           [t \in DOMAIN amplitude |->
               RAdd(amplitude[t],
                    RMul(fast_step_coefficient(fastStep_size_previous', fast_step_size'),
                         RSub(amplitude[t], amplitude_previous[t])))]
    /\ pc' = "fista_test"
    /\ iteration' = iteration + 1
    /\ stepTrace' = Append(stepTrace, "fast")
    /\ UNCHANGED <<frequency_amplitude_prediction, fourier_transform, amplitude_previous,
                   blockState, launch, raised, hadRun>>
    /\ samples /\ configuration

(***************************************************************************)
(* evaluate_naive_ista                                                     *)
(***************************************************************************)
\* ... > 1
naive_continues(amplitude_, amplitude_previous_) ==
    RLess(Num(ConvergenceThresholdNaive), SquaredChange(amplitude_, amplitude_previous_))

\* lines 145-151
NaiveBegin == beginRun("naive_init")

\* line 152: the kernel's name is looked up in the module's globals
NaiveInitialise ==
    /\ pc = "naive_init"
    /\ IF naive_kernels_defined
       THEN LET blocks == BlocksPerGrid(Size(time_coarse))
                result == reconstruct_ista_initialisation_step(blocks, frequency,
                              frequency_amplitude, time_step_coarse, time_coarse,
                              amplitude, fourier_transform)
            IN  /\ amplitude' = result.amplitude
                /\ fourier_transform' = result.fourier_transform
                /\ launch' = LaunchLog("initialisation", Size(time_coarse),
                       [w \in Workers(blocks) |->
                           initialisation_step_accesses(w, Size(time_coarse))])
                /\ pc' = "naive_first_prediction"
                /\ operatorBuilt
                /\ UNCHANGED <<frequency_amplitude_prediction, raised>>
       ELSE /\ raised' = "NameError"
            /\ pc' = "idle"
            /\ frequency_amplitude_prediction' = None
            /\ fourier_transform' = None
            /\ UNCHANGED <<amplitude, launch, operatorBuilds>>
    /\ UNCHANGED <<amplitude_previous, fast_step_size, fastStep_size_previous, blockState,
                   iteration, stepTrace, hadRun>>
    /\ samplesKept /\ configuration

\* lines 154-167
NaiveFirstPrediction ==
    /\ pc = "naive_first_prediction"
    /\ LET blocks == BlocksPerGrid(Size(frequency)) IN
         /\ frequency_amplitude_prediction' =
                reconstruct_ista_prediction_step(blocks, frequency_amplitude, amplitude,
                    fourier_transform, frequency_amplitude_prediction)
         /\ launch' = LaunchLog("prediction", Size(frequency_amplitude_prediction),
                [w \in Workers(blocks) |->
                    prediction_step_accesses(w, Size(frequency_amplitude_prediction))])
    /\ amplitude_previous' = [t \in DOMAIN amplitude |-> RMul(Zero, amplitude[t])]
    /\ pc' = "naive_test"
    /\ UNCHANGED <<amplitude, fourier_transform, fast_step_size, fastStep_size_previous,
                   blockState, iteration, stepTrace, raised, hadRun>>
    /\ samples /\ configuration

\* line 168, then line 174 or the return
naiveTest(followed) ==
    /\ pc = "naive_test"
    /\ IF naive_continues(amplitude, amplitude_previous)
       THEN /\ iteration < followed
            /\ amplitude_previous' = amplitude
            /\ pc' = "naive_sparse"
            /\ stepTrace' = <<>>
            /\ UNCHANGED <<amplitude, frequency_amplitude_prediction, fourier_transform,
                           fast_step_size, fastStep_size_previous, blockState, launch,
                           iteration, raised, hadRun>>
            /\ samples /\ configuration
       ELSE returnFromRun

\* line 168, then line 174 or the return
NaiveTest == naiveTest(MaxIter)

NaiveTestLong == naiveTest(MaxNaiveIter)

\* line 175
NaiveSparse == sparseLaunch("naive_sparse", "naive_prediction")
\* line 176
NaivePrediction == predictionLaunch("naive_prediction", "naive_manifold")
\* line 183
NaiveManifold == manifoldLaunch("naive_manifold", "naive_test", 1)

(***************************************************************************)
(* evaluate_ista_complete                                                  *)
(***************************************************************************)
\* what a store of the shrinkage to an index past the end of amplitude does:
\* it writes back the value it has just read there (sparse_penalty is 0), so
\* where the address is mapped nothing is seen, and where it is not the
\* kernel is aborted and the copy back to the host raises
OutOfBoundsOutcomes == {"unobserved", "fault"}

\* lines 71-88
IstaCompleteBegin == beginRun("ista_complete_launch")

\* line 90: the grid is sized by the time axis
IstaCompleteLaunch ==
    /\ pc = "ista_complete_launch"
    /\ LET blocks == BlocksPerGrid(Size(time_coarse)) IN
         /\ blockState' = [b \in Indices(blocks) |->
                               [phase |-> "initialise", iteration_index |-> 0]]
         /\ launch' = LaunchLog("ista_complete", Size(amplitude),
                [w \in Workers(blocks) |-> complete_accesses(w, Size(amplitude))])
    /\ pc' = "ista_complete_kernel"
    /\ UNCHANGED <<amplitude, frequency_amplitude_prediction, fourier_transform,
                   amplitude_previous, fast_step_size, fastStep_size_previous,
                   iteration, stepTrace, raised, hadRun>>
    /\ samplesKept /\ operatorBuilt /\ configuration

\* the blocks that own an element below `size` of a buffer indexed by worker
owners(size) == {b \in DOMAIN blockState : \E w \in BlockWorkers(b) : w < size}

\* block b has not yet left the prediction of iteration iteration_index
predictionPending(b, iteration_index) ==
    \/ blockState[b].phase = "initialise"
    \/ (blockState[b].phase # "done" /\ blockState[b].iteration_index < iteration_index)
    \/ (blockState[b].phase = "prediction" /\ blockState[b].iteration_index = iteration_index)

\* lines 205-216, one block up to its first barrier
BlockInitialise ==
    /\ pc = "ista_complete_kernel"
    /\ \E b \in DOMAIN blockState :
          /\ blockState[b].phase = "initialise"
          /\ LET result == complete_initialise(b, time_coarse, frequency, time_step_coarse,
                                                amplitude, fourier_transform)
             IN  /\ amplitude' = result.amplitude
                 /\ fourier_transform' = result.fourier_transform
          /\ blockState' = [blockState EXCEPT ![b].phase =
                 IF max_iteration_index(time_coarse, time_step_coarse,
                                        Num(MinAccuracy), Num(ExpectedAmplitude)) > 0
                 THEN "prediction" ELSE "done"]
    /\ UNCHANGED <<pc, frequency_amplitude_prediction, amplitude_previous, fast_step_size,
                   fastStep_size_previous, launch, iteration, stepTrace, raised, hadRun>>
    /\ samples /\ configuration

\* lines 219-227, one block between the barriers of lines 219 and 230
BlockPrediction ==
    /\ pc = "ista_complete_kernel"
    /\ \E b \in DOMAIN blockState :
          /\ blockState[b].phase = "prediction"
          /\ frequency_amplitude_prediction' =
                 complete_prediction(b, time_coarse, frequency_amplitude,
                                     frequency_amplitude_prediction, fourier_transform)
          /\ launch' = [launch EXCEPT !.unsynchronised = @ \cup
                 {[reader |-> b, buffer |-> "fourier_transform", writer |-> c] :
                     c \in {c \in owners(Size(time_coarse)) :
                               /\ b \in owners(Size(frequency_amplitude_prediction))
                               /\ c # b
                               /\ blockState[c].phase = "initialise"}}]
          /\ blockState' = [blockState EXCEPT ![b].phase = "linear_inverse"]
    /\ UNCHANGED <<pc, amplitude, fourier_transform, amplitude_previous, fast_step_size,
                   fastStep_size_previous, iteration, stepTrace, raised, hadRun>>
    /\ samples /\ configuration

\* lines 230-241, one block from the barrier of line 230 to the end of the
\* loop body
BlockLinearInverse ==
    /\ pc = "ista_complete_kernel"
    /\ \E b \in DOMAIN blockState, outcome \in OutOfBoundsOutcomes, garbage \in GarbageValues :
          /\ blockState[b].phase = "linear_inverse"
          /\ IF outcome = "fault" /\ (\E w \in BlockWorkers(b) : w >= Size(time_coarse))
             THEN \* the host's array is not written back
                  /\ amplitude' = EmptyArray(Size(time_coarse), garbage)
                  /\ raised' = "CudaAPIError"
                  /\ pc' = "idle"
                  /\ dropLocals
                  /\ pre' = NoSnapshot
                  /\ UNCHANGED <<launch, iteration>>
             ELSE /\ garbage = CHOOSE g \in GarbageValues : TRUE
                  /\ outcome = "unobserved"
                  /\ amplitude' =
                         complete_linear_inverse(b, time_coarse,
                             frequency_amplitude_prediction,
                             complete_step_size(time_coarse, time_step_coarse),
                             Num(SparsePenalty), fourier_transform, amplitude)
                  /\ launch' = [launch EXCEPT !.unsynchronised = @ \cup
                         {[reader |-> b, buffer |-> "frequency_amplitude_prediction",
                           writer |-> c] :
                             c \in {c \in owners(Size(frequency_amplitude_prediction)) :
                                       /\ b \in owners(Size(time_coarse))
                                       /\ c # b
                                       /\ predictionPending(c, blockState[b].iteration_index)}}]
                  /\ blockState' = [blockState EXCEPT ![b] =
                         [phase |->
                             IF @.iteration_index + 1 <
                                    max_iteration_index(time_coarse, time_step_coarse,
                                        Num(MinAccuracy), Num(ExpectedAmplitude))
                             THEN "prediction" ELSE "done",
                          iteration_index |-> @.iteration_index + 1]]
                  /\ pre' = IF b = 0 THEN Snapshot(None) ELSE pre
                  /\ iteration' = IF b = 0 THEN iteration + 1 ELSE iteration
                  /\ UNCHANGED <<pc, frequency_amplitude_prediction, fourier_transform,
                                 amplitude_previous, fast_step_size, fastStep_size_previous,
                                 raised>>
    /\ UNCHANGED <<stepTrace, hadRun>>
    /\ samples /\ settings

\* lines 92-94: the launch has completed
IstaCompleteReturn ==
    /\ pc = "ista_complete_kernel"
    /\ \A b \in DOMAIN blockState : blockState[b].phase = "done"
    /\ returnFromRun

Next ==
    \/ ReadFrequencies \/ WriteToFile
    \/ IstaCompleteBegin \/ IstaCompleteLaunch \/ BlockInitialise \/ BlockPrediction
    \/ BlockLinearInverse \/ IstaCompleteReturn
    \/ FistaBegin \/ FistaInitialise \/ FistaTest \/ FistaPrediction
    \/ FistaManifold \/ FistaSparse \/ FistaFastStep
    \/ NaiveBegin \/ NaiveInitialise \/ NaiveFirstPrediction \/ NaiveTest
    \/ NaiveSparse \/ NaivePrediction \/ NaiveManifold

Spec == Init /\ [][Next]_vars

(***************************************************************************)
(* evaluate_ista_complete on a time grid that needs a second thread block  *)
(* (specification SpecComplete).                                           *)
(***************************************************************************)
\* the session's two step sizes and the naive kernels are not used by this
\* driver
InitComplete ==
    /\ Reconstruction({ThreadsPerBlock + 1})
    /\ step_size_sparse = <<1, 2>>
    /\ step_size_manifold = One
    /\ ~naive_kernels_defined

NextComplete ==
    \/ ReadFrequencies
    \/ IstaCompleteBegin \/ IstaCompleteLaunch \/ BlockInitialise \/ BlockPrediction
    \/ BlockLinearInverse \/ IstaCompleteReturn

SpecComplete == InitComplete /\ [][NextComplete]_vars

(***************************************************************************)
(* evaluate_naive_ista alone, followed for more iterations (specification  *)
(* SpecNaive).                                                             *)
(***************************************************************************)
InitNaive ==
    /\ Reconstruction({2})
    /\ naive_kernels_defined

NextNaive ==
    \/ ReadFrequencies
    \/ NaiveBegin \/ NaiveInitialise \/ NaiveFirstPrediction \/ NaiveTestLong
    \/ NaiveSparse \/ NaivePrediction \/ NaiveManifold

SpecNaive == InitNaive /\ [][NextNaive]_vars

(***************************************************************************)
(* evaluate_fista on degenerate inputs: a time grid of one sample, or no   *)
(* sample drawn (specification SpecDegenerate).  A grid whose last time is *)
(* 0 is left out: line 255 divides by it.                                  *)
(***************************************************************************)
InitDegenerate ==
    /\ Reconstruction(1 .. 2)
    /\ time_coarse[Size(time_coarse) - 1] # 0

\* read_frequencies_directly(frequency, frequency_amplitude, 0, frequency_cutoff):
\* np.random.choice draws no index and the stored arrays are empty
ReadNoFrequencies ==
    \E frequency_cutoff \in FrequencyCutoffs :
        read_frequencies_directly(callerFrequency, callerAmplitude, 0, frequency_cutoff)

NextDegenerate ==
    \/ ReadFrequencies \/ ReadNoFrequencies
    \/ FistaBegin \/ FistaInitialise \/ FistaTest \/ FistaPrediction
    \/ FistaManifold \/ FistaSparse \/ FistaFastStep

SpecDegenerate == InitDegenerate /\ [][NextDegenerate]_vars

(***************************************************************************)
(* evaluate_fista on samples whose amplitudes are small enough for the     *)
(* first test of line 123 to pass, to be at its threshold, or to fail      *)
(* (specification SpecSeed).                                               *)
(***************************************************************************)
SmallInputs == {<<(0 :> 1 @@ 1 :> 3), (0 :> <<1, 4>> @@ 1 :> One)>>}

InitSeed ==
    /\ ReconstructionWith({2}, SmallInputs)
    /\ ~naive_kernels_defined

NextSeed ==
    \/ ReadFrequencies
    \/ FistaBegin \/ FistaInitialise \/ FistaTest \/ FistaPrediction
    \/ FistaManifold \/ FistaSparse \/ FistaFastStep

SpecSeed == InitSeed /\ [][NextSeed]_vars

(***************************************************************************)
(* The claims about the FISTA and naive-ISTA drivers (Spec).               *)
(***************************************************************************)
\* t_0 = 1, t_k = (1 + sqrt(1 + 4*t_(k-1)^2))/2
RECURSIVE TSequence(_)
TSequence(k) ==
    IF k = 0 THEN One
    ELSE LET t == TSequence(k - 1)
         IN  RDiv(RAdd(One, RSqrt(RAdd(One, RMul(Num(4), RMul(t, t))))), Num(2))

\* operator*candidate - measured
ResidualOf(candidate) ==
    [f \in DOMAIN frequency_amplitude |->
        RSub(SumOver([t \in DOMAIN candidate |-> RMul(fourier_transform[f][t], candidate[t])],
                     DOMAIN candidate),
             frequency_amplitude[f])]

\* candidate - step_size_manifold * transpose(operator) * residual
GradientStepOf(candidate) ==
    [t \in DOMAIN candidate |->
        RSub(candidate[t],
             RMul(step_size_manifold,
                  SumOver([f \in DOMAIN frequency_amplitude |->
                              RMul(fourier_transform[f][t], ResidualOf(candidate)[f])],
                          DOMAIN frequency_amplitude)))]

\* shrink(gradientStep(candidate))
UpdateOf(candidate) ==
    [t \in DOMAIN candidate |-> SoftThreshold(GradientStepOf(candidate)[t], step_size_sparse)]

\* C4: every FISTA run starts its scalar sequence at t = 1, advances it once per
\* iteration by t_k = (1 + sqrt(1 + 4*t_(k-1)^2))/2, and iteration k leaves
\* candidate_k = update + ((t_(k-1) - 1)/t_k)*(update - candidate_(k-1)) with
\* update = shrink(gradientStep(candidate_(k-1))), candidate_(k-1) being the
\* candidate at the start of the iteration.
C4_FistaIteration ==
    pc = "fista_test" =>
        /\ fast_step_size = TSequence(iteration)
        /\ iteration = 0 => fast_step_size = One
        /\ iteration >= 1 =>
              /\ fastStep_size_previous = TSequence(iteration - 1)
              /\ \A t \in DOMAIN amplitude :
                    amplitude[t] =
                        RAdd(UpdateOf(amplitude_previous)[t],
                             RMul(RDiv(RSub(TSequence(iteration - 1), One),
                                       TSequence(iteration)),
                                  RSub(UpdateOf(amplitude_previous)[t],
                                       amplitude_previous[t])))

\* the second iteration of a later run of a session, where the momentum term
\* moved the candidate away from the plain update
C4_Witness ==
    /\ pc = "fista_test"
    /\ hadRun
    /\ iteration = 2
    /\ \E t \in DOMAIN amplitude : amplitude[t] # UpdateOf(amplitude_previous)[t]

\* C5: every iteration of the naive-ISTA loop runs forward prediction, then the
\* manifold gradient step, then the sparsity shrinkage: the loop body of FISTA
\* without its fast step.
C5_NaiveOrder ==
    /\ (pc = "fista_test" /\ iteration >= 1) =>
           stepTrace = <<"prediction", "manifold", "sparse", "fast">>
    /\ (pc = "naive_test" /\ iteration >= 1) =>
           stepTrace = <<"prediction", "manifold", "sparse">>

\* the sum of the squared differences between two candidates
SquaredDifference(a, b) ==
    SumOver([t \in DOMAIN a |-> RMul(RSub(a[t], b[t]), RSub(a[t], b[t]))], DOMAIN a)

\* C6: at every iteration boundary of the FISTA and naive-ISTA loops the driver
\* goes on to another iteration when the summed squared difference between the
\* candidate and the candidate at the start of the last iteration exceeds 1,
\* and otherwise returns with the stored amplitude exactly that candidate.
C6_ConvergenceTest ==
    [][(pc \in {"fista_test", "naive_test"}) =>
           /\ amplitude' = amplitude
           /\ IF RLess(One, SquaredDifference(amplitude, amplitude_previous))
              THEN /\ pc' = (IF pc = "fista_test" THEN "fista_prediction" ELSE "naive_sparse")
                   /\ iteration' = iteration
              ELSE /\ pc' = "idle"
                   /\ hadRun'
                   /\ raised' = NoException]_vars

\* a FISTA run that has returned after two full iterations
C6_Witness ==
    /\ pc = "idle"
    /\ hadRun
    /\ iteration = 2
    /\ Len(stepTrace) = 4

(***************************************************************************)
(* The claims about evaluate_ista_complete and about ingestion.            *)
(***************************************************************************)
\* the number of passes through the loop body that the launch of line 90 asks
\* for: the least n with n*(T - 1) >= ((10/(1000*dt))^2)/100, dt in seconds
IterationBudget ==
    LET perStep == Rat(ExpectedAmplitude * TicksPerSecond, 1000 * time_step_coarse)
    IN  Ceil(RDiv(RDiv(RMul(perStep, perStep), Num(MinAccuracy)),
                  Num(Size(time_coarse) - 1)))

C8_Barrier == launch.unsynchronised = {}

\* C9: in every kernel launch each output element is written by exactly one
\* worker and a worker whose global index is at or beyond the array size
\* reads and writes nothing.
C9_WorkerIndexing ==
    launch.kernel # "none" =>
        /\ \A e \in DOMAIN launch.writers : Cardinality(launch.writers[e]) = 1
        /\ launch.outOfBounds = {}

\* C10: the stored samples are exactly sampleCount entries, no input index is
\* selected twice, and every stored frequency is below frequencyCutoff.
C10_Ingestion ==
    frequency # None =>
        /\ Size(frequency) = ingested.number_of_samples
        /\ Size(frequency_amplitude) = ingested.number_of_samples
        /\ \A i, j \in DOMAIN permutation : i # j => permutation[i] # permutation[j]
        /\ \A i \in DOMAIN frequency : frequency[i] < ingested.frequency_cutoff

(***************************************************************************)
(* The claims about ingestion errors, export and the runs as a whole.      *)
(***************************************************************************)
\* the number of the caller's entries below a cutoff
EligibleCount(frequency_cutoff) ==
    Cardinality({i \in DOMAIN callerFrequency : callerFrequency[i] < frequency_cutoff})

\* C11: an ingestion that asks for more samples than there are entries below
\* the cutoff fails and stores nothing, so whatever samples the session holds
\* were stored by a call that asked for no more than the eligible entries.
C11_ExcessRejected ==
    frequency # None =>
        ingested.number_of_samples <= EligibleCount(ingested.frequency_cutoff)

\* C12: an export succeeds only on a session on which a run has returned; then
\* it exposes the time grid and the amplitude; on every other session it fails
\* and exposes no amplitude.
C12_ExportNeedsRun ==
    pc = "exported" =>
        IF hadRun
        THEN /\ raised = NoException
             /\ archive.time_coarse = time_coarse
             /\ archive.amplitude = amplitude
        ELSE /\ raised # NoException
             /\ archive.amplitude = None

\* C13: a run on a session that holds samples does not fail before its loop,
\* whichever the variant, and on return the amplitude has one value per sample
\* of the time grid.
C13_RunReachesLoop ==
    /\ (frequency # None /\ pc = "idle") =>
           raised \notin {"AttributeError", "NameError"}
    /\ (frequency # None /\ pc = "idle" /\ hadRun) =>
           DOMAIN amplitude = DOMAIN time_coarse

\* sin(2*pi*frequency[f]*time[t])*dt_coarse/T_total, T_total the span of the grid
OperatorEntry(f, t) ==
    RDiv(RMul(SinQuarter(frequency[f], time_coarse[t]), Num(time_step_coarse)),
         Num(time_coarse[Size(time_coarse) - 1] - time_coarse[0]))

\* the operator of a run is built: by the initialisation kernel of
\* evaluate_fista and evaluate_naive_ista, or by every block of
\* reconstruct_ista_complete
operatorReady ==
    \/ /\ launch.kernel = "initialisation"
       /\ pc \in {"fista_test", "naive_first_prediction"}
    \/ /\ pc = "ista_complete_kernel"
       /\ \A b \in DOMAIN blockState : blockState[b].phase # "initialise"

\* C14: once built, operator[f, t] = sin(2*pi*frequency[f]*time[t])*dt/T_total
\* for every f and t, T_total being the last time minus the first, on every
\* time grid.
C14_OperatorEntries ==
    operatorReady =>
        \A f \in DOMAIN fourier_transform : \A t \in DOMAIN fourier_transform[f] :
            fourier_transform[f][t] = OperatorEntry(f, t)

\* C15: after the initialisation kernel candidate[t] is the sum over f of
\* 2*operator[f, t]*(T_total/dt_coarse)*measured[f], whatever the buffer held,
\* T_total being the span of the grid.
C15_InitialCandidate ==
    (launch.kernel = "initialisation" /\ pc \in {"fista_test", "naive_first_prediction"}) =>
        \A t \in DOMAIN amplitude :
            amplitude[t] =
                SumOver([f \in DOMAIN frequency |->
                            RMul(RMul(RMul(Num(2), fourier_transform[f][t]),
                                      RDiv(Num(time_coarse[Size(time_coarse) - 1]
                                               - time_coarse[0]),
                                           Num(time_step_coarse))),
                                 frequency_amplitude[f])],
                        DOMAIN frequency)

\* the entry that lines 249-255 store: the divisor is the last time of the grid
OperatorEntryOfRun(f, t) ==
    RDiv(RMul(SinQuarter(frequency[f], time_coarse[t]), Num(time_step_coarse)),
         Num(time_coarse[Size(time_coarse) - 1]))

LoopPositions ==
    {"fista_test", "fista_prediction", "fista_manifold", "fista_sparse", "fista_fast",
     "naive_first_prediction", "naive_test", "naive_sparse", "naive_prediction",
     "naive_manifold"}

NaiveBody(candidate) ==
    LET shrunk == reconstruct_ista_sparse_step(BlocksPerGrid(Size(time_coarse)),
                      step_size_sparse, candidate, tiny)
        residual == reconstruct_ista_prediction_step(BlocksPerGrid(Size(frequency)),
                        frequency_amplitude, shrunk, fourier_transform,
                        frequency_amplitude_prediction)
    IN  reconstruct_sista_manifold_step(BlocksPerGrid(Size(time_coarse)), residual,
            step_size_manifold, fourier_transform, shrunk)

\* the loop is where it was two iterations ago and its test fails both times
loopRecurs ==
    /\ naive_continues(amplitude, amplitude_previous)
    /\ naive_continues(NaiveBody(amplitude), amplitude)
    /\ NaiveBody(amplitude) = amplitude_previous
    /\ NaiveBody(NaiveBody(amplitude)) = amplitude

\* C17: every run returns, by a passed convergence test or by a non-convergence
\* error after a bounded number of iterations: no run stands at a loop test
\* from which the loop's own steps bring it back to the same test with the
\* same candidate and the same previous candidate.
C17_RunReturns == pc = "naive_test" => ~loopRecurs

\* C18: a run on an empty frequency set or on a time grid of fewer than two
\* samples fails with an invalid-input error: a run that returns without an
\* error had at least one frequency and at least two times.
C18_DegenerateRejected ==
    [][(pc # "idle" /\ pc' = "idle" /\ raised' = NoException) =>
           (Size(frequency) >= 1 /\ Size(time_coarse) >= 2)]_vars

\* the candidate a run starts its loop with (lines 117 and 152)
InitialCandidate ==
    reconstruct_ista_initialisation_step(BlocksPerGrid(Size(time_coarse)), frequency,
        frequency_amplitude, time_step_coarse, time_coarse, amplitude,
        fourier_transform).amplitude

\* the iterations the loop of lines 168-183 executes from a candidate before its
\* test passes, counted up to budget: budget + 1 stands for more than budget
RECURSIVE NaiveIterations(_, _, _)
NaiveIterations(candidate, previous, budget) ==
    IF ~naive_continues(candidate, previous) THEN 0
    ELSE IF budget = 0 THEN 1
    ELSE 1 + NaiveIterations(NaiveBody(candidate), candidate, budget - 1)

\* C19: on the same samples, time grid and step sizes evaluate_fista executes no
\* more loop iterations than evaluate_naive_ista: when evaluate_fista has done
\* k iterations and its test still fails, the naive loop's test has not passed
\* within k iterations either.
C19_FistaNoSlower ==
    (pc = "fista_test" /\ fista_continues(amplitude, amplitude_previous)) =>
        NaiveIterations(InitialCandidate,
                        [t \in DOMAIN amplitude |-> Zero], iteration) > iteration

\* C20: in every iteration of reconstruct_ista_complete the residual is computed
\* from the current candidate: when every block has left the prediction of an
\* iteration, residual[f] = (sum over t of operator[f, t]*candidate[t]) -
\* measured[f] for every f.
C20_ResidualFromCandidate ==
    (/\ pc = "ista_complete_kernel"
     /\ \A b \in DOMAIN blockState : blockState[b].phase = "linear_inverse") =>
        \A f \in DOMAIN frequency_amplitude_prediction :
            frequency_amplitude_prediction[f] = ResidualOf(amplitude)[f]

(***************************************************************************)
(* The claims about the buffers of a run and the first iteration.          *)
(***************************************************************************)
\* every element of the launch's output buffer has a worker that stores it
allWritten == \A e \in DOMAIN launch.writers : launch.writers[e] # {}

\* C21: no buffer element is read before it is written in the same run: the
\* first test of a run finds every candidate and operator element stored by
\* the initialisation, a gradient step finds every residual stored by the
\* prediction before it, and a block of reconstruct_ista_complete computes
\* its residuals only when every operator column has been stored.
C21_WrittenBeforeRead ==
    [][/\ ((pc = "fista_test" /\ iteration = 0) \/ pc = "naive_first_prediction") =>
              (launch.kernel = "initialisation" /\ allWritten)
       /\ pc \in {"fista_manifold", "naive_manifold"} =>
              (launch.kernel = "prediction" /\ allWritten)
       /\ (pc = "ista_complete_kernel" /\ pc' = "ista_complete_kernel") =>
              \A b \in owners(Size(frequency_amplitude_prediction)) :
                  (blockState[b].phase = "prediction"
                      /\ blockState'[b].phase = "linear_inverse") =>
                          \A c \in owners(Size(time_coarse)) :
                              blockState[c].phase # "initialise"]_vars

ZeroCandidate == [t \in DOMAIN amplitude |-> Zero]

\* C22: the first test of evaluate_fista compares the seeded candidate with the
\* all-zero vector: when the seed's sum of squares is at most 1 the run returns
\* the seed with no step applied, when it is greater the loop body is entered
\* from the seed, and a body that was entered runs to its end.
C22_FirstTest ==
    [][/\ (pc = "fista_test" /\ iteration = 0) =>
              /\ amplitude_previous = ZeroCandidate
              /\ stepTrace = <<>>
              /\ IF RLess(One, SquaredDifference(amplitude, ZeroCandidate))
                 THEN /\ pc' = "fista_prediction"
                      /\ amplitude' = amplitude
                      /\ amplitude_previous' = amplitude
                 ELSE /\ pc' = "idle"
                      /\ amplitude' = amplitude
                      /\ stepTrace' = <<>> /\ iteration' = 0
                      /\ raised' = NoException
       /\ pc \in {"fista_prediction", "fista_manifold", "fista_sparse", "fista_fast"} =>
              pc' # "idle"]_vars

\* a run that returned its seed: the seed is not zero and its sum of squares
\* is exactly the threshold
C22_Witness ==
    /\ pc = "idle" /\ hadRun /\ raised = NoException
    /\ launch.kernel = "initialisation" /\ iteration = 0 /\ stepTrace = <<>>
    /\ SquaredDifference(amplitude, ZeroCandidate) = One

\* (t_prev - 1)/t of the fast step that is being taken
MomentumCoefficient == RDiv(RSub(fast_step_size, One), fast_step_size')

\* C23: the fast step of the first iteration has the coefficient (t_prev - 1)/t
\* = 0 and leaves the candidate at shrink(gradientStep(seed)); the fast step of
\* every later iteration has a coefficient strictly between 0 and 1; and the
\* step adds coefficient*(candidate - previous candidate) to the candidate.
C23_MomentumCoefficient ==
    [][pc = "fista_fast" =>
          /\ iteration = 0 =>
                /\ MomentumCoefficient = Zero
                /\ amplitude' = UpdateOf(amplitude_previous)
          /\ iteration >= 1 =>
                (RLess(Zero, MomentumCoefficient) /\ RLess(MomentumCoefficient, One))
          /\ \A t \in DOMAIN amplitude :
                amplitude'[t] =
                    RAdd(amplitude[t],
                         RMul(MomentumCoefficient,
                              RSub(amplitude[t], amplitude_previous[t])))]_vars

\* the second fast step of a run has moved the candidate
C23_Witness ==
    /\ pc = "fista_test" /\ iteration = 2
    /\ RLess(One, fastStep_size_previous)
    /\ \E t \in DOMAIN amplitude :
          /\ amplitude[t] # amplitude_previous[t]
          /\ amplitude[t] # UpdateOf(amplitude_previous)[t]

\* the stored samples pair by pair come from one index of the caller's arrays
pairedSamples ==
    /\ Size(frequency) = Size(frequency_amplitude)
    /\ \A i \in DOMAIN frequency :
          \E j \in DOMAIN callerFrequency :
              /\ frequency[i] = callerFrequency[j]
              /\ frequency_amplitude[i] = callerAmplitude[j]

\* C24: after every successful read_frequencies_directly the stored frequency
\* and frequency_amplitude have equal length and position i of both comes from
\* the same index of the caller's arrays; no ingestion and no step of a run
\* changes the caller's arrays, or unpairs the stored samples.
C24_PairedSamples ==
    [][/\ callerFrequency' = callerFrequency
       /\ callerAmplitude' = callerAmplitude
       /\ frequency' # None => pairedSamples']_vars

\* a run has returned on samples drawn out of the caller's order
C24_Witness ==
    /\ frequency # None /\ hadRun /\ pc = "idle" /\ raised = NoException
    /\ Size(frequency) = 2
    /\ permutation[0] = 1 /\ permutation[1] = 0


=============================================================================
